---- MODULE Spec2Model ----
(***************************************************************************)
(* Model of the material/scattering classes of include/material.h:         *)
(* Material, Lambertian, Metal, Dielectric, DiffuseLight and Isotropic.    *)
(*                                                                         *)
(* A double is modelled as an exact rational <<num, den>> in lowest terms  *)
(* with den > 0; rounding of floating point arithmetic is not modelled.    *)
(* A vec3 / Point3 / Color is a triple of such rationals.                  *)
(***************************************************************************)
EXTENDS Integers, Sequences, FiniteSets, TLC

VARIABLES mat, ctor, pool, scene, last

vars == <<mat, ctor, pool, scene, last>>

----------------------------------------------------------------------------
(* Bounds of the model. *)

\* ray times are 0..MaxTime
MaxTime == 1
\* hit points are (k, 0, 0) for k in 0..MaxCoord
MaxCoord == 1
\* number of path-tracing workers of the multi-worker specification
MaxWorkers == 2

----------------------------------------------------------------------------
(* double arithmetic, on exact rationals *)

Abs(i) == IF i < 0 THEN -i ELSE i

RECURSIVE Gcd(_, _)
Gcd(a, b) == IF b = 0 THEN a ELSE Gcd(b, a % b)

Rat(n, d) ==
    LET g == Gcd(Abs(n), Abs(d))
        s == IF d < 0 THEN -1 ELSE 1
    IN  <<(s * n) \div g, (s * d) \div g>>

Zero == <<0, 1>>
One == <<1, 1>>

RAdd(a, b) ==
    LET g == Gcd(a[2], b[2])
    IN  Rat(a[1] * (b[2] \div g) + b[1] * (a[2] \div g), (a[2] \div g) * b[2])
RNeg(a) == <<-a[1], a[2]>>
RSub(a, b) == RAdd(a, RNeg(b))
RMul(a, b) ==
    LET g1 == Gcd(Abs(a[1]), b[2])
        g2 == Gcd(Abs(b[1]), a[2])
    IN  Rat((a[1] \div g1) * (b[1] \div g2), (a[2] \div g2) * (b[2] \div g1))
\* a / b, for b # 0
RDiv(a, b) == RMul(a, Rat(b[2], b[1]))
RLt(a, b) ==
    LET g == Gcd(a[2], b[2])
    IN  a[1] * (b[2] \div g) < b[1] * (a[2] \div g)
RGt(a, b) == RLt(b, a)
RLe(a, b) == ~RLt(b, a)
\* fabs
RAbs(a) == <<Abs(a[1]), a[2]>>
\* fmin
Fmin(a, b) == IF RLt(b, a) THEN b ELSE a

\* largest k with k * k <= n, for 0 <= n < 2^31, by bisection of lo..hi
RECURSIVE ISqrtIn(_, _, _)
ISqrtIn(n, lo, hi) ==
    IF hi - lo <= 1
    THEN lo
    ELSE LET mid == (lo + hi) \div 2
         IN  IF mid * mid <= n THEN ISqrtIn(n, mid, hi) ELSE ISqrtIn(n, lo, mid)
ISqrt(n) == ISqrtIn(n, 0, 46341)
IsSquare(n) == ISqrt(n) * ISqrt(n) = n

\* sqrt, for a >= 0: exact on the square of a rational, and rounded down to a
\* multiple of 1/1000 elsewhere
Sqrt(a) ==
    IF IsSquare(a[1]) /\ IsSquare(a[2])
    THEN <<ISqrt(a[1]), ISqrt(a[2])>>
    ELSE Rat(ISqrt((a[1] * 1000000) \div a[2]), 1000)

\* pow(a, 5)
Pow5(a) == RMul(a, RMul(RMul(a, a), RMul(a, a)))

\* conversion of a double to bool, as a return statement of a bool function
\* applies it: every value other than zero is true
DoubleToBool(a) == a # Zero

----------------------------------------------------------------------------
(* vec3 *)

Vec(x, y, z) == <<Rat(x, 1), Rat(y, 1), Rat(z, 1)>>
VAdd(a, b) == <<RAdd(a[1], b[1]), RAdd(a[2], b[2]), RAdd(a[3], b[3])>>
VSub(a, b) == <<RSub(a[1], b[1]), RSub(a[2], b[2]), RSub(a[3], b[3])>>
VScale(t, a) == <<RMul(t, a[1]), RMul(t, a[2]), RMul(t, a[3])>>
VNeg(a) == <<RNeg(a[1]), RNeg(a[2]), RNeg(a[3])>>
Dot(a, b) == RAdd(RAdd(RMul(a[1], b[1]), RMul(a[2], b[2])), RMul(a[3], b[3]))
LengthSquared(a) == Dot(a, a)
Length(a) == Sqrt(LengthSquared(a))
\* normalize(v) = v / v.length()
normalize(a) == VScale(RDiv(One, Length(a)), a)

\* the epsilon of vec3::near_zero
NearZeroEps == <<1, 10>>
near_zero(a) ==
    /\ RLt(RAbs(a[1]), NearZeroEps)
    /\ RLt(RAbs(a[2]), NearZeroEps)
    /\ RLt(RAbs(a[3]), NearZeroEps)

\* reflect(v, n) = v - 2 * dot(v, n) * n
reflect(v, n) == VSub(v, VScale(RMul(<<2, 1>>, Dot(v, n)), n))

\* refract(uv, n, etai_over_etat), by Snell's law, from the component of the
\* refracted ray perpendicular to the normal and the one parallel to it
refract(uv, n, ratio) ==
    LET cos_theta == Fmin(Dot(VNeg(uv), n), One)
        r_out_perp == VScale(ratio, VAdd(uv, VScale(cos_theta, n)))
        r_out_parallel ==
            VScale(RNeg(Sqrt(RAbs(RSub(One, LengthSquared(r_out_perp))))), n)
    IN  VAdd(r_out_perp, r_out_parallel)

ZeroVec == Vec(0, 0, 0)

----------------------------------------------------------------------------
(* Color, Ray, hit_info, Texture *)

Color(r, g, b) == <<r, g, b>>

Ray(origin, direction, time) == [orig |-> origin, dir |-> direction, tm |-> time]

\* a default-constructed Ray and Color, as the integrator declares them
\* before it passes them to scatter
DefaultRay == Ray(ZeroVec, ZeroVec, Zero)
DefaultColor == Color(Zero, Zero, Zero)

\* SolidColor(c): value(u, v, p) = c
SolidColor(c) == [kind |-> "SolidColor", c |-> c]
\* a texture whose value varies with u, v and p
Gradient == [kind |-> "Gradient"]

\* Texture::value(u, v, p)
Texture_value(tex, u, v, p) ==
    IF tex.kind = "SolidColor" THEN tex.c ELSE Color(u, v, p[1])

----------------------------------------------------------------------------
(* constructors *)

Lambertian_col(col) == [kind |-> "Lambertian", albedo |-> SolidColor(col)]
Lambertian_tex(tex) == [kind |-> "Lambertian", albedo |-> tex]

Metal_ctor(col, f) ==
    [kind |-> "Metal", albedo |-> col, fuzz |-> IF RLt(f, One) THEN f ELSE One]

Dielectric_ctor(refractive_index) == [kind |-> "Dielectric", eta |-> refractive_index]

DiffuseLight_ctor(_emit) == [kind |-> "DiffuseLight", emit |-> _emit]

Isotropic_col(c) == [kind |-> "Isotropic", albedo |-> SolidColor(c)]
Isotropic_tex(a) == [kind |-> "Isotropic", albedo |-> a]

----------------------------------------------------------------------------
(* scatter and emitted.  A scatter operator takes the material, the const  *)
(* ray, the hit record and the two out-parameters as the caller passes     *)
(* them, and the value the random source yields; it gives the return value *)
(* and the hit record and out-parameters as the call leaves them.          *)

Result(ret, info, attenuation, scattered) ==
    [ret |-> ret, info |-> info, attenuation |-> attenuation, scattered |-> scattered]

\* Material::emitted
Material_emitted(m, u, v, p) == Color(Zero, Zero, Zero)

\* Lambertian::scatter without the check of near_zero
Lambertian_scatter_unchecked(m, ray_in, info, attenuation, scattered, rv) ==
    Result(TRUE, info,
           Texture_value(m.albedo, info.u, info.v, info.p),
           Ray(info.p, VAdd(info.normal, rv), ray_in.tm))

Lambertian_scatter(m, ray_in, info, attenuation, scattered, rv) ==
    LET sum == VAdd(info.normal, rv)
        scatter_direction == IF near_zero(sum) THEN info.normal ELSE sum
    IN  Result(TRUE, info,
               Texture_value(m.albedo, info.u, info.v, info.p),
               Ray(info.p, scatter_direction, ray_in.tm))

\* Metal::scatter with the random unit vector not scaled by fuzz
Metal_scatter_unscaled(m, ray_in, info, attenuation, scattered, rv) ==
    LET dir == normalize(ray_in.dir)
        reflected_direction == reflect(dir, info.normal)
        out == Ray(info.p, VAdd(reflected_direction, rv), ray_in.tm)
    IN  Result(DoubleToBool(Dot(info.normal, out.dir)), info, m.albedo, out)

\* Metal::scatter that stores the scattered direction in the hit record
Metal_scatter_writes_info(m, ray_in, info, attenuation, scattered, rv) ==
    LET dir == normalize(ray_in.dir)
        reflected_direction == reflect(dir, info.normal)
        out == Ray(info.p, VAdd(reflected_direction, VScale(m.fuzz, rv)), ray_in.tm)
    IN  Result(DoubleToBool(Dot(info.normal, out.dir)),
               [info EXCEPT !.normal = out.dir], m.albedo, out)

Metal_scatter(m, ray_in, info, attenuation, scattered, rv) ==
    LET dir == normalize(ray_in.dir)
        reflected_direction == reflect(dir, info.normal)
        out == Ray(info.p, VAdd(reflected_direction, VScale(m.fuzz, rv)), ray_in.tm)
    IN  Result(DoubleToBool(Dot(info.normal, out.dir)), info, m.albedo, out)

\* Dielectric::reflectance with pow(cos, 5) for pow((1 - cos), 5)
Dielectric_reflectance_of_cos(cos, ri) ==
    LET r0 == RDiv(RSub(One, ri), RAdd(One, ri))
        r0sq == RMul(r0, r0)
    IN  RAdd(r0sq, RMul(RSub(One, r0sq), Pow5(cos)))

Dielectric_reflectance(cos, ri) ==
    LET r0 == RDiv(RSub(One, ri), RAdd(One, ri))
        r0sq == RMul(r0, r0)
    IN  RAdd(r0sq, RMul(RSub(One, r0sq), Pow5(RSub(One, cos))))

Dielectric_refractive_ibyr(m, info) ==
    IF info.front_face THEN RDiv(One, m.eta) ELSE m.eta

Dielectric_cos_theta(ray_in, info) ==
    Fmin(RNeg(Dot(normalize(ray_in.dir), info.normal)), One)

Dielectric_sin_theta(ray_in, info) ==
    LET cos_theta == Dielectric_cos_theta(ray_in, info)
    IN  Sqrt(RSub(One, RMul(cos_theta, cos_theta)))

Dielectric_cannot_refract(m, ray_in, info) ==
    RGt(RMul(Dielectric_refractive_ibyr(m, info), Dielectric_sin_theta(ray_in, info)), One)

\* the condition of the if statement without cannot_refract
Dielectric_reflects_by_draw(m, ray_in, info, rs) ==
    RGt(Dielectric_reflectance(Dielectric_cos_theta(ray_in, info),
                               Dielectric_refractive_ibyr(m, info)), rs)

\* the condition of the if statement: the branch that reflects is taken
Dielectric_reflects(m, ray_in, info, rs) ==
    \/ Dielectric_cannot_refract(m, ray_in, info)
    \/ RGt(Dielectric_reflectance(Dielectric_cos_theta(ray_in, info),
                                  Dielectric_refractive_ibyr(m, info)), rs)

\* Dielectric::scatter with the scattered ray made without the time
Dielectric_scatter_no_time(m, ray_in, info, attenuation, scattered, rs) ==
    LET unit_dir == normalize(ray_in.dir)
        scattered_direction ==
            IF Dielectric_reflects(m, ray_in, info, rs)
            THEN reflect(unit_dir, info.normal)
            ELSE refract(unit_dir, info.normal, Dielectric_refractive_ibyr(m, info))
    IN  Result(TRUE, info, Color(One, One, One),
               Ray(info.p, scattered_direction, Zero))

Dielectric_scatter(m, ray_in, info, attenuation, scattered, rs) ==
    LET unit_dir == normalize(ray_in.dir)
        scattered_direction ==
            IF Dielectric_reflects(m, ray_in, info, rs)
            THEN reflect(unit_dir, info.normal)
            ELSE refract(unit_dir, info.normal, Dielectric_refractive_ibyr(m, info))
    IN  Result(TRUE, info, Color(One, One, One),
               Ray(info.p, scattered_direction, ray_in.tm))

DiffuseLight_scatter(m, ray_in, info, attenuation, scattered) ==
    Result(FALSE, info, attenuation, scattered)

\* DiffuseLight without its override of emitted
DiffuseLight_emitted_inherited(m, u, v, p) == Material_emitted(m, u, v, p)

DiffuseLight_emitted(m, u, v, p) == Texture_value(m.emit, u, v, p)

\* Isotropic::scatter that scatters about the normal, as Lambertian does
Isotropic_scatter_about_normal(m, ray_in, info, attenuation, scattered, rv) ==
    Result(TRUE, info,
           Texture_value(m.albedo, info.u, info.v, info.p),
           Ray(info.p, VAdd(info.normal, rv), ray_in.tm))

Isotropic_scatter(m, ray_in, info, attenuation, scattered, rv) ==
    Result(TRUE, info,
           Texture_value(m.albedo, info.u, info.v, info.p),
           Ray(info.p, rv, ray_in.tm))

----------------------------------------------------------------------------
(* the inputs: constructor arguments, rays, hit records, random draws *)

Grey == Color(<<1, 2>>, <<1, 2>>, <<1, 2>>)
Gold == Color(<<4, 5>>, <<3, 5>>, <<1, 5>>)

FuzzArgs == {<<-1, 2>>, Zero, <<3, 10>>, One, <<3, 2>>}
EtaArgs == {One, <<3, 2>>, <<2, 3>>}

\* the constructor calls of a scene
Ctors ==
    {[class |-> "Lambertian", col |-> Grey, tex |-> SolidColor(Grey), f |-> Zero],
     [class |-> "Lambertian", col |-> Grey, tex |-> Gradient, f |-> Zero]}
    \cup {[class |-> "Metal", col |-> c, tex |-> SolidColor(c), f |-> f] :
            c \in {Grey, Gold}, f \in FuzzArgs}
    \cup {[class |-> "Dielectric", col |-> Grey, tex |-> SolidColor(Grey), f |-> e] :
            e \in EtaArgs}
    \cup {[class |-> "DiffuseLight", col |-> Gold, tex |-> t, f |-> Zero] :
            t \in {SolidColor(Gold), Gradient}}
    \cup {[class |-> "Isotropic", col |-> Gold, tex |-> t, f |-> Zero] :
            t \in {SolidColor(Gold), Gradient}}

\* the material a constructor call makes; a Lambertian or an Isotropic of a
\* SolidColor texture is made by the constructor that takes the color
Construct(c) ==
    CASE c.class = "Lambertian" ->
            IF c.tex.kind = "SolidColor" THEN Lambertian_col(c.col) ELSE Lambertian_tex(c.tex)
      [] c.class = "Metal" -> Metal_ctor(c.col, c.f)
      [] c.class = "Dielectric" -> Dielectric_ctor(c.f)
      [] c.class = "DiffuseLight" -> DiffuseLight_ctor(c.tex)
      [] c.class = "Isotropic" ->
            IF c.tex.kind = "SolidColor" THEN Isotropic_col(c.col) ELSE Isotropic_tex(c.tex)

\* directions of incoming rays, not normalized, each of rational length
Directions ==
    {Vec(0, 0, -1), Vec(0, 0, -2), Vec(3, 0, -4), Vec(4, 0, -3), Vec(-4, 0, -3),
     Vec(-2, -1, -2)}

Times == {Rat(t, 1) : t \in 0..MaxTime}
Points == {Vec(k, 0, 0) : k \in 0..MaxCoord}
Normals == {Vec(0, 0, 1), Vec(1, 0, 0)}
UVs == {<<Zero, Zero>>, <<<<1, 2>>, <<1, 4>>>>}

HitInfo(p, normal, uv, front_face) ==
    [p |-> p, normal |-> normal, u |-> uv[1], v |-> uv[2], front_face |-> front_face]

AllRays == {Ray(Vec(0, 0, 1), d, t) : d \in Directions, t \in Times}
AllHits == {HitInfo(p, n, uv, ff) : p \in Points, n \in Normals, uv \in UVs, ff \in BOOLEAN}

\* the scene of the multi-worker specification: one direction, two hit
\* records that differ in normal and front_face only, one material a class
FewRays == {Ray(Vec(0, 0, 1), Vec(-4, 0, -3), t) : t \in Times}
FewHits ==
    {HitInfo(Vec(0, 0, 0), Vec(0, 0, 1), <<<<1, 2>>, <<1, 4>>>>, TRUE),
     HitInfo(Vec(0, 0, 0), Vec(1, 0, 0), <<<<1, 2>>, <<1, 4>>>>, FALSE)}
FewCtors ==
    {c \in Ctors : /\ c.class = "Metal" => c.f = <<3, 10>> /\ c.col = Gold
                   /\ c.class = "Dielectric" => c.f = <<3, 2>>
                   /\ c.class \in {"Lambertian", "DiffuseLight", "Isotropic"}
                         => c.tex = Gradient}

\* values of randomUnitVec(): unit vectors, one of them within the epsilon of
\* near_zero of -(0, 0, 1)
AllUnitVecs ==
    {Vec(0, 0, 1), Vec(0, 0, -1), Vec(-1, 0, 0), Vec(0, 1, 0),
     <<<<-3, 5>>, Zero, <<-4, 5>>>>, <<<<25, 313>>, Zero, <<-312, 313>>>>}
FewUnitVecs == {Vec(0, 0, 1), Vec(0, 0, -1), <<<<-3, 5>>, Zero, <<-4, 5>>>>}

\* values of randomDouble(), in [0, 1)
Scalars == {Zero, <<1, 2>>, <<9, 10>>}

\* the rays and the hit records of the scene that is traced
Rays == IF scene = "all" THEN AllRays ELSE FewRays
Hits == IF scene = "all" THEN AllHits ELSE FewHits
\* the values randomUnitVec() takes while it is traced
UnitVecs == IF scene = "all" THEN AllUnitVecs ELSE FewUnitVecs

\* the hit records of a ray: the normal is oriented against the ray
HitsOf(ray) == {h \in Hits : RLe(Dot(ray.dir, h.normal), Zero)}

----------------------------------------------------------------------------
(* the state: the material instance, the constructor call that made it,    *)
(* the workers that call it, the scene they trace, and each worker's last  *)
(* call with its arguments, the random draw it took and what it gave.      *)

NoCall == [op |-> "none"]

ScatterCall(ray_in, info, draw, branch, r) ==
    [op |-> "scatter", ray_in |-> ray_in, info |-> info, draw |-> draw,
     branch |-> branch, ret |-> r.ret, info_out |-> r.info,
     attenuation |-> r.attenuation, scattered |-> r.scattered]

EmittedCall(u, v, p, c) == [op |-> "emitted", u |-> u, v |-> v, p |-> p, color |-> c]

\* the workers a run may have; pool holds the ones it has
Workers == 1..MaxWorkers

InitOf(ctors, workers, traced) ==
    /\ ctor \in ctors
    /\ mat = Construct(ctor)
    /\ pool = workers
    /\ scene = traced
    /\ last = [w \in Workers |-> NoCall]

Init == InitOf(Ctors, {1}, "all")

InitMT == InitOf(FewCtors, Workers, "few")

\* worker w runs and is between two calls
Idle(w) == w \in pool /\ last[w] = NoCall

\* worker w holds what its call gave
Returns(w, call) ==
    /\ last' = [last EXCEPT ![w] = call]
    /\ UNCHANGED <<mat, ctor, pool, scene>>

ScatterLambertian(w) ==
    /\ Idle(w)
    /\ mat.kind = "Lambertian"
    /\ \E ray_in \in Rays : \E info \in HitsOf(ray_in) : \E rv \in UnitVecs :
          Returns(w, ScatterCall(ray_in, info, rv, "none",
              Lambertian_scatter(mat, ray_in, info, DefaultColor, DefaultRay, rv)))

ScatterMetal(w) ==
    /\ Idle(w)
    /\ mat.kind = "Metal"
    /\ \E ray_in \in Rays : \E info \in HitsOf(ray_in) : \E rv \in UnitVecs :
          Returns(w, ScatterCall(ray_in, info, rv, "none",
              Metal_scatter(mat, ray_in, info, DefaultColor, DefaultRay, rv)))

ScatterDielectric(w) ==
    /\ Idle(w)
    /\ mat.kind = "Dielectric"
    /\ \E ray_in \in Rays : \E info \in HitsOf(ray_in) : \E rs \in Scalars :
          Returns(w, ScatterCall(ray_in, info, rs,
              IF Dielectric_reflects(mat, ray_in, info, rs) THEN "reflect" ELSE "refract",
              Dielectric_scatter(mat, ray_in, info, DefaultColor, DefaultRay, rs)))

ScatterDiffuseLight(w) ==
    /\ Idle(w)
    /\ mat.kind = "DiffuseLight"
    /\ \E ray_in \in Rays : \E info \in HitsOf(ray_in) :
          Returns(w, ScatterCall(ray_in, info, Zero, "none",
              DiffuseLight_scatter(mat, ray_in, info, DefaultColor, DefaultRay)))

\* the hit record of a volume has an arbitrary normal
ScatterIsotropic(w) ==
    /\ Idle(w)
    /\ mat.kind = "Isotropic"
    /\ \E ray_in \in Rays : \E info \in Hits : \E rv \in UnitVecs :
          Returns(w, ScatterCall(ray_in, info, rv, "none",
              Isotropic_scatter(mat, ray_in, info, DefaultColor, DefaultRay, rv)))

\* emitted on a material that does not override it
EmittedMaterial(w) ==
    /\ Idle(w)
    /\ mat.kind # "DiffuseLight"
    /\ \E info \in Hits :
          Returns(w, EmittedCall(info.u, info.v, info.p,
              Material_emitted(mat, info.u, info.v, info.p)))

EmittedDiffuseLight(w) ==
    /\ Idle(w)
    /\ mat.kind = "DiffuseLight"
    /\ \E info \in Hits :
          Returns(w, EmittedCall(info.u, info.v, info.p,
              DiffuseLight_emitted(mat, info.u, info.v, info.p)))

\* the integrator of worker w has used what the call gave and goes on
Resume(w) ==
    /\ w \in pool
    /\ last[w] # NoCall
    /\ last' = [last EXCEPT ![w] = NoCall]
    /\ UNCHANGED <<mat, ctor, pool, scene>>

Next ==
    \/ \E w \in Workers : Resume(w)
    \/ \E w \in Workers : ScatterLambertian(w)
    \/ \E w \in Workers : ScatterMetal(w)
    \/ \E w \in Workers : ScatterDielectric(w)
    \/ \E w \in Workers : ScatterDiffuseLight(w)
    \/ \E w \in Workers : ScatterIsotropic(w)
    \/ \E w \in Workers : EmittedMaterial(w)
    \/ \E w \in Workers : EmittedDiffuseLight(w)

Spec == Init /\ [][Next]_vars

SpecMT == InitMT /\ [][Next]_vars

----------------------------------------------------------------------------
(* the claims *)

\* worker w holds what a scatter call on a material of class k gave
Scattered(w, k) == mat.kind = k /\ last[w].op = "scatter"

\* the ideal specular reflection d - 2 * (d . n) * n
Mirror(d, n) ==
    <<RSub(d[1], RMul(RMul(<<2, 1>>, Dot(d, n)), n[1])),
      RSub(d[2], RMul(RMul(<<2, 1>>, Dot(d, n)), n[2])),
      RSub(d[3], RMul(RMul(<<2, 1>>, Dot(d, n)), n[3]))>>

\* the normalized direction of the incoming ray of a call
UnitDir(c) == normalize(c.ray_in.dir)

\* the direction Metal.scatter is to give: the reflection, perturbed
PerturbedDir(c) == VAdd(Mirror(UnitDir(c), c.info.normal), VScale(mat.fuzz, c.draw))

\* C1: for a Metal of any fuzz in [0, 1], Metal.scatter returns true if and only if dot(normal, scattered
\* direction) > 0, the scattered direction being reflect(normalize(incoming
\* direction), normal) + fuzz * random unit vector; it returns false when that
\* dot product is negative or zero.
C1_MetalReturnsSignTest ==
    \A w \in Workers :
        (Scattered(w, "Metal") /\ RLe(Zero, mat.fuzz) /\ RLe(mat.fuzz, One)) =>
            (last[w].ret <=> RGt(Dot(last[w].info.normal, PerturbedDir(last[w])), Zero))

\* C2: the fuzz stored by Metal(col, f) lies in [0, 1]: f >= 1 gives 1, f in
\* [0, 1) gives f, and no f, negative ones included, gives a fuzz outside
\* [0, 1]; the stored fuzz never changes.
C2_FuzzInUnitInterval ==
    ctor.class = "Metal" =>
        /\ RLe(Zero, mat.fuzz) /\ RLe(mat.fuzz, One)
        /\ RLe(One, ctor.f) => mat.fuzz = One
        /\ (RLe(Zero, ctor.f) /\ RLt(ctor.f, One)) => mat.fuzz = ctor.f

\* cos_theta, sin_theta and the refraction ratio of a Dielectric call
CosTheta(c) == Fmin(RNeg(Dot(UnitDir(c), c.info.normal)), One)
SinTheta(c) == Sqrt(RSub(One, RMul(CosTheta(c), CosTheta(c))))
RefractionRatio(c) == IF c.info.front_face THEN RDiv(One, mat.eta) ELSE mat.eta

C4_TotalInternalReflection ==
    \A w \in Workers :
        (Scattered(w, "Dielectric")
            /\ RGt(RMul(RefractionRatio(last[w]), SinTheta(last[w])), One)) =>
            /\ last[w].branch = "reflect"
            /\ last[w].scattered.dir = Mirror(UnitDir(last[w]), last[w].info.normal)

C4_Witness ==
    \E w \in Workers :
        /\ Scattered(w, "Dielectric") /\ mat.eta = <<3, 2>>
        /\ ~last[w].info.front_face
        /\ RGt(SinTheta(last[w]), <<2, 3>>)
        /\ last[w].draw = <<9, 10>>
        /\ last[w].branch = "reflect"

\* C5: the direction Lambertian.scatter gives is never the zero vector: it is
\* n + r when n + r is not near zero, and n when n + r is near zero.
C5_LambertianDirectionNotZero ==
    \A w \in Workers :
        Scattered(w, "Lambertian") =>
            LET n == last[w].info.normal
                r == last[w].draw
                d == last[w].scattered.dir
            IN  /\ d # ZeroVec
                /\ near_zero(VAdd(n, r)) => d = n
                /\ ~near_zero(VAdd(n, r)) => d = VAdd(n, r)

C5_Witness ==
    \E w \in Workers :
        /\ Scattered(w, "Lambertian")
        /\ near_zero(VAdd(last[w].info.normal, last[w].draw))
        /\ VAdd(last[w].info.normal, last[w].draw) # ZeroVec
        /\ last[w].scattered.dir = last[w].info.normal

\* C6: DiffuseLight.scatter returns false for every ray and hit record, and
\* DiffuseLight.emitted(u, v, p) returns the value of the material's texture
\* at (u, v, p), after any sequence of calls on the instance.
C6_DiffuseLightEmitsAndNeverScatters ==
    \A w \in Workers :
        mat.kind = "DiffuseLight" =>
            /\ last[w].op = "scatter" => last[w].ret = FALSE
            /\ last[w].op = "emitted" =>
                  last[w].color = Texture_value(ctor.tex, last[w].u, last[w].v, last[w].p)

C6_Witness ==
    \E w \in Workers :
        /\ mat.kind = "DiffuseLight" /\ ctor.tex = Gradient
        /\ last[w].op = "emitted"
        /\ last[w].color = Color(<<1, 2>>, <<1, 4>>, One)

\* C7: the ray that Lambertian, Metal, Dielectric and Isotropic scatter gives
\* has the hit point info.p as its origin and the time of the incoming ray.
C7_ScatteredOriginAndTime ==
    \A w \in Workers :
        (last[w].op = "scatter"
            /\ mat.kind \in {"Lambertian", "Metal", "Dielectric", "Isotropic"}) =>
            /\ last[w].scattered.orig = last[w].info.p
            /\ last[w].scattered.tm = last[w].ray_in.tm

C7_Witness ==
    \E w \in Workers :
        /\ Scattered(w, "Metal") /\ last[w].ret = FALSE
        /\ last[w].ray_in.tm = One /\ last[w].info.p = Vec(1, 0, 0)
        /\ last[w].scattered.orig = Vec(1, 0, 0) /\ last[w].scattered.tm = One

\* two calls were given the same arguments and the same random draw
SameCall(a, b) ==
    /\ a.op = b.op
    /\ a.op = "scatter" => (a.ray_in = b.ray_in /\ a.info = b.info /\ a.draw = b.draw)
    /\ a.op = "emitted" => (a.u = b.u /\ a.v = b.v /\ a.p = b.p)

\* C8: under any interleaving of scatter and emitted calls of several workers
\* on one material, no call changes the material or the hit record it is
\* passed, and what a call gives is determined by its arguments and its random
\* draw: two calls with the same arguments and draw give the same.
C8_StatelessAcrossCalls ==
    [][/\ mat' = mat
       /\ \A w \in Workers :
             last'[w].op = "scatter" => last'[w].info_out = last'[w].info
       /\ \A a, b \in Workers :
             SameCall(last'[a], last'[b]) => last'[a] = last'[b]]_vars

C8_Witness ==
    \E a, b \in Workers :
        /\ a # b
        /\ Scattered(a, "Metal") /\ last[b].op = "scatter"
        /\ SameCall(last[a], last[b])
        /\ last[a].ret = last[b].ret
        /\ last[a].scattered = last[b].scattered

\* C9: Isotropic.scatter returns true and its scattered direction is the random
\* unit vector drawn; two calls whose hit records differ in normal and
\* front_face only and that draw the same vector give the same ray and the same
\* attenuation, the value of the texture at (u, v, p).
C9_IsotropicIgnoresNormal ==
    /\ \A w \in Workers :
          Scattered(w, "Isotropic") =>
              /\ last[w].ret = TRUE
              /\ last[w].scattered.dir = last[w].draw
              /\ last[w].attenuation =
                    Texture_value(ctor.tex, last[w].info.u, last[w].info.v, last[w].info.p)
    /\ \A a, b \in Workers :
          (/\ Scattered(a, "Isotropic") /\ last[b].op = "scatter"
           /\ last[a].ray_in = last[b].ray_in
           /\ last[a].draw = last[b].draw
           /\ [last[a].info EXCEPT !.normal = ZeroVec, !.front_face = TRUE]
                 = [last[b].info EXCEPT !.normal = ZeroVec, !.front_face = TRUE]) =>
              /\ last[a].scattered = last[b].scattered
              /\ last[a].attenuation = last[b].attenuation

C9_Witness ==
    \E a, b \in Workers :
        /\ Scattered(a, "Isotropic") /\ last[b].op = "scatter"
        /\ last[a].info.normal # last[b].info.normal
        /\ last[a].info.front_face # last[b].info.front_face
        /\ last[a].ray_in = last[b].ray_in
        /\ last[a].draw = last[b].draw
        /\ last[a].scattered = last[b].scattered

\* C10: a Metal constructed with fuzz = 0 scatters in the ideal specular
\* reflection d - 2 * (d . normal) * normal of the normalized incoming
\* direction d, whatever the random unit vector drawn, and its attenuation is
\* the albedo color of the constructor.
C10_MirrorWhenFuzzZero ==
    \A w \in Workers :
        (Scattered(w, "Metal") /\ ctor.f = Zero) =>
            /\ last[w].scattered.dir = Mirror(UnitDir(last[w]), last[w].info.normal)
            /\ last[w].attenuation = ctor.col

C10_Witness ==
    \E w \in Workers :
        /\ Scattered(w, "Metal") /\ ctor.f = Zero /\ ctor.col = Gold
        /\ last[w].ray_in.dir = Vec(3, 0, -4)
        /\ last[w].info.normal = Vec(0, 0, 1)
        /\ last[w].draw = Vec(0, 0, -1)
        /\ last[w].scattered.dir = <<<<3, 5>>, Zero, <<4, 5>>>>
        /\ last[w].attenuation = Gold

====
